---- MODULE Spec2Model ----
(***************************************************************************)
(* Model of src/deduplicate.rs: the scan of a directory into (path, hash)  *)
(* records by parallel worker tasks, the anchor-based grouping of the      *)
(* records into duplicate groups, and the writing of the report.           *)
(***************************************************************************)
EXTENDS Integers, Sequences, FiniteSets, TLC

\* ------------------------------------------------------------------ bounds
\* Largest number of entries read_dir yields for the scanned directory.
MaxEntries == 4
\* Largest duplicate_threshold passed to run.
MaxThreshold == 4

\* ------------------------------------------------------------- input data
\* Fingerprints the hasher can produce: equal-length bit vectors.  The three
\* sample vectors realise every Hamming distance from 0 to 3.
Hashes == { <<0, 0, 0>>, <<0, 1, 1>>, <<1, 1, 1>> }

\* Content of a directory entry that image::open cannot decode.
NotImage == << >>

\* What a directory entry can hold: an undecodable file (or subdirectory), or
\* an image, identified with the fingerprint the hasher computes for it.
Contents == {NotImage} \cup Hashes

Thresholds == 0..MaxThreshold

\* The entry lists read_dir can yield: entry k has path k, so the paths of one
\* listing are pairwise distinct.  Entries whose DirEntry is an error are
\* dropped by the filter_map of line 17 and are not part of the list.
EntryLists == UNION { [1..n -> Contents] : n \in 0..MaxEntries }

\* ImageHash::dist: the number of bit positions in which two hashes differ.
Dist(h1, h2) == Cardinality({ k \in 1..Len(h1) : h1[k] # h2[k] })

VARIABLES
    isDir,        \* directory.is_dir()
    entries,      \* what the directory holds, in read_dir order
    threshold,    \* duplicate_threshold
    pc,           \* position of run
    result,       \* what run returned: "none" while running
    scanned,      \* what get_image_hashes returned: "none" until it returns
    barLen,       \* ProgressBar length
    barPos,       \* ProgressBar position
    finished,     \* indices of the entries whose worker task has completed
    out,          \* out[k]: what the task of entry k produced (<<>> or <<info>>)
    images,       \* image_hashes, the argument of find_duplicates
    i,            \* find_duplicates: index of the outer loop (1-based)
    groups,       \* find_duplicates: groups
    processed,    \* find_duplicates: processed
    compared,     \* pairs <<anchor index, candidate index>> whose distance was computed
    contents,     \* save_results: the serialized report (<<>> until serialized)
    file          \* the report file: "absent", "empty", "partial" or "complete"

vars == << isDir, entries, threshold, pc, result, scanned, barLen, barPos, finished, out,
           images, i, groups, processed, compared, contents, file >>

scanVars == << barLen, barPos, finished, out >>
groupVars == << images, i, groups, processed, compared >>
saveVars == << contents, file >>
inputVars == << isDir, entries, threshold >>

\* ------------------------------------------------------- get_image_hashes
\* The test left out: every path is taken for a directory (mutant of
\* DirectoryAccepted).
DirectoryAcceptedAlways(d) == TRUE

\* The is_dir test of line 12.
DirectoryAccepted(d) == d

\* The closure body of filter_map: Some(ImageInfo) when the entry decodes.
TaskOutput(path, content) ==
    IF content # NotImage
    THEN << [path |-> path, hash |-> content] >>
    ELSE << >>

\* bar.inc(1) is reached only in the branch where the entry decoded.
TaskProgress(content) == IF content # NotImage THEN 1 ELSE 0

\* A collect that stops at the first task that produced nothing (mutant of
\* Collect).
RECURSIVE CollectUntilNone(_, _)
CollectUntilNone(o, n) ==
    IF n = 0 THEN << >>
    ELSE IF \E k \in 1..n : o[k] = << >>
         THEN CollectUntilNone(o, n - 1)
         ELSE CollectUntilNone(o, n - 1) \o o[n]

\* collect() of the parallel iterator into a Vec: the per-task outputs are
\* concatenated in the order of the entries, whatever order the tasks ran in.
RECURSIVE Collect(_, _)
Collect(o, n) == IF n = 0 THEN << >> ELSE Collect(o, n - 1) \o o[n]

\* --------------------------------------------------------- find_duplicates
\* A membership test that never finds the path (mutant of Contains).
ContainsNever(set, path) == FALSE

\* processed.contains(&x.path)
Contains(set, path) == path \in set

\* The comparison with <= in place of < (mutant of Matches).
MatchesInclusive(image, other_image, t) == Dist(image.hash, other_image.hash) <= t

\* The comparison turned round (mutant of Matches).
MatchesFlipped(image, other_image, t) == Dist(image.hash, other_image.hash) > t

\* image.hash.dist(&other_image.hash) < duplicate_threshold
Matches(image, other_image, t) == Dist(image.hash, other_image.hash) < t

\* The skip left out: every anchor scans the whole list (mutant of
\* FirstCandidate).
FirstCandidateFromStart(idx) == 1

\* skip(i + 2) in place of skip(i + 1) (mutant of FirstCandidate).
FirstCandidateSkipsNext(idx) == idx + 2

\* skip(i) in place of skip(i + 1) (mutant of FirstCandidate).
FirstCandidateSelf(idx) == idx

\* images.iter().skip(i + 1): the first candidate of the anchor at index i.
FirstCandidate(idx) == idx + 1

\* len() > 0 in place of len() > 1 (mutant of IsGroup).
IsGroupNonEmpty(current_group) == Len(current_group) > 0

\* current_group.len() > 1
IsGroup(current_group) == Len(current_group) > 1

\* The group inserted at the front of groups (mutant of PushGroup).
PushGroupFront(gs, current_group) == << [items |-> current_group] >> \o gs

\* groups.push(DuplicatesGroup { items: current_group })
PushGroup(gs, current_group) == Append(gs, [items |-> current_group])

\* The inner loop comparing each candidate with the member added last
\* instead of with the anchor (mutant of InnerLoop).
RECURSIVE InnerLoopChained(_, _, _, _, _)
InnerLoopChained(imgs, a, j, st, t) ==
    IF j > Len(imgs) THEN st
    ELSE IF Contains(st.processed, imgs[j].path)
         THEN InnerLoopChained(imgs, a, j + 1, st, t)
    ELSE IF Matches(st.current_group[Len(st.current_group)], imgs[j], t)
         THEN InnerLoopChained(imgs, a, j + 1,
                        [current_group |-> Append(st.current_group, imgs[j]),
                         processed |-> st.processed \cup {imgs[j].path},
                         compared |-> st.compared \cup {<<a, j>>}], t)
    ELSE InnerLoopChained(imgs, a, j + 1,
                   [st EXCEPT !.compared = @ \cup {<<a, j>>}], t)

\* The inner loop left with a break after the first match (mutant of
\* InnerLoop).
RECURSIVE InnerLoopBreak(_, _, _, _, _)
InnerLoopBreak(imgs, a, j, st, t) ==
    IF j > Len(imgs) THEN st
    ELSE IF Contains(st.processed, imgs[j].path)
         THEN InnerLoopBreak(imgs, a, j + 1, st, t)
    ELSE IF Matches(imgs[a], imgs[j], t)
         THEN [current_group |-> Append(st.current_group, imgs[j]),
               processed |-> st.processed \cup {imgs[j].path},
               compared |-> st.compared \cup {<<a, j>>}]
    ELSE InnerLoopBreak(imgs, a, j + 1,
                   [st EXCEPT !.compared = @ \cup {<<a, j>>}], t)

\* The inner loop for the anchor at index a, from candidate index j on.
\* st carries current_group, processed and the pairs compared so far.
RECURSIVE InnerLoop(_, _, _, _, _)
InnerLoop(imgs, a, j, st, t) ==
    IF j > Len(imgs) THEN st
    ELSE IF Contains(st.processed, imgs[j].path)
         THEN InnerLoop(imgs, a, j + 1, st, t)
    ELSE IF Matches(imgs[a], imgs[j], t)
         THEN InnerLoop(imgs, a, j + 1,
                        [current_group |-> Append(st.current_group, imgs[j]),
                         processed |-> st.processed \cup {imgs[j].path},
                         compared |-> st.compared \cup {<<a, j>>}], t)
    ELSE InnerLoop(imgs, a, j + 1,
                   [st EXCEPT !.compared = @ \cup {<<a, j>>}], t)

\* One iteration of the outer loop, for the image at index a.
\* s carries groups, processed and compared.
AnchorVisit(imgs, a, s, t) ==
    IF Contains(s.processed, imgs[a].path) THEN s
    ELSE LET r == InnerLoop(imgs, a, FirstCandidate(a),
                            [current_group |-> << imgs[a] >>,
                             processed |-> s.processed,
                             compared |-> s.compared], t)
         IN  IF IsGroup(r.current_group)
             THEN [groups |-> PushGroup(s.groups, r.current_group),
                   processed |-> r.processed \cup {imgs[a].path},
                   compared |-> r.compared]
             ELSE [groups |-> s.groups,
                   processed |-> r.processed,
                   compared |-> r.compared]

\* groups starting with one empty group instead of no group (mutant of
\* GroupInit).
GroupInitOneGroup == [groups |-> << [items |-> << >>] >>, processed |-> {}, compared |-> {}]

\* The state of find_duplicates before the first iteration.
GroupInit == [groups |-> << >>, processed |-> {}, compared |-> {}]

RECURSIVE OuterLoop(_, _, _, _)
OuterLoop(imgs, a, s, t) ==
    IF a > Len(imgs) THEN s
    ELSE OuterLoop(imgs, a + 1, AnchorVisit(imgs, a, s, t), t)

\* find_duplicates as a function of its arguments.
FindDuplicates(imgs, t) == OuterLoop(imgs, 1, GroupInit, t).groups

\* ------------------------------------------------------------------- Init
Init ==
    /\ isDir \in BOOLEAN
    /\ entries \in (IF isDir THEN EntryLists ELSE { << >> })
    /\ threshold \in Thresholds
    /\ pc = "start"
    /\ result = "none"
    /\ scanned = "none"
    /\ barLen = 0
    /\ barPos = 0
    /\ finished = {}
    /\ out = << >>
    /\ images = << >>
    /\ i = 1
    /\ groups = << >>
    /\ processed = {}
    /\ compared = {}
    /\ contents = << >>
    /\ file = "absent"

\* ---------------------------------------------------------------- actions
\* get_image_hashes, lines 12-14: the path is not a directory.
InvalidDirectory ==
    /\ pc = "start"
    /\ ~DirectoryAccepted(isDir)
    /\ scanned' = "InvalidDirectory"
    /\ result' = "InvalidDirectory"
    /\ pc' = "done"
    /\ UNCHANGED << inputVars, scanVars, groupVars, saveVars >>

\* get_image_hashes, line 16: read_dir fails, the ? returns the I/O error.
ReadDirErr ==
    /\ pc = "start"
    /\ DirectoryAccepted(isDir)
    /\ scanned' = "StorageIO"
    /\ result' = "StorageIO"
    /\ pc' = "done"
    /\ UNCHANGED << inputVars, scanVars, groupVars, saveVars >>

\* get_image_hashes, lines 16-25: the entries are listed, the bar is created.
ReadDirOk ==
    /\ pc = "start"
    /\ DirectoryAccepted(isDir)
    /\ isDir                         \* read_dir succeeds on a directory only
    /\ barLen' = Len(entries)
    /\ out' = [k \in 1..Len(entries) |-> << >>]
    /\ pc' = "scan"
    /\ UNCHANGED << inputVars, result, scanned, barPos, finished, groupVars, saveVars >>

\* A task that pushes its output to a shared list, in the order in which the
\* tasks complete (mutant of Task).
TaskPushing(k) ==
    /\ pc = "scan"
    /\ k \in 1..Len(entries)
    /\ k \notin finished
    /\ out' = [out EXCEPT ![Cardinality(finished) + 1] = TaskOutput(k, entries[k])]
    /\ barPos' = barPos + TaskProgress(entries[k])
    /\ finished' = finished \cup {k}
    /\ UNCHANGED << inputVars, pc, result, scanned, barLen, groupVars, saveVars >>

\* One worker task of the parallel iterator: the closure applied to entry k.
Task(k) ==
    /\ pc = "scan"
    /\ k \in 1..Len(entries)
    /\ k \notin finished
    /\ out' = [out EXCEPT ![k] = TaskOutput(k, entries[k])]
    /\ barPos' = barPos + TaskProgress(entries[k])
    /\ finished' = finished \cup {k}
    /\ UNCHANGED << inputVars, pc, result, scanned, barLen, groupVars, saveVars >>

\* All tasks are done: collect() and Ok(image_hashes); run enters
\* find_duplicates (lines 47-48).
ScanReturn ==
    /\ pc = "scan"
    /\ finished = 1..Len(entries)
    /\ scanned' = "Ok"
    /\ images' = Collect(out, Len(entries))
    /\ i' = 1
    /\ groups' = GroupInit.groups
    /\ processed' = GroupInit.processed
    /\ compared' = GroupInit.compared
    /\ pc' = "group"
    /\ UNCHANGED << inputVars, result, scanVars, saveVars >>

\* The outer loop written with an index that the `continue` of an already
\* processed image does not advance (mutant of GroupStep).
GroupStepStuckOnSkip ==
    /\ pc = "group"
    /\ i <= Len(images)
    /\ LET r == AnchorVisit(images, i,
                            [groups |-> groups, processed |-> processed,
                             compared |-> compared], threshold)
       IN  /\ groups' = r.groups
           /\ processed' = r.processed
           /\ compared' = r.compared
    /\ i' = IF Contains(processed, images[i].path) THEN i ELSE i + 1
    /\ UNCHANGED << inputVars, pc, result, scanned, scanVars, images, saveVars >>

\* One iteration of the outer loop of find_duplicates.
GroupStep ==
    /\ pc = "group"
    /\ i <= Len(images)
    /\ LET r == AnchorVisit(images, i,
                            [groups |-> groups, processed |-> processed,
                             compared |-> compared], threshold)
       IN  /\ groups' = r.groups
           /\ processed' = r.processed
           /\ compared' = r.compared
    /\ i' = i + 1
    /\ UNCHANGED << inputVars, pc, result, scanned, scanVars, images, saveVars >>

\* run returning Ok at once, without a report, when there is no group
\* (mutant of GroupReturn).
GroupReturnSkipEmpty ==
    /\ pc = "group"
    /\ i > Len(images)
    /\ pc' = IF groups = << >> THEN "done" ELSE "serialize"
    /\ result' = IF groups = << >> THEN "Ok" ELSE result
    /\ UNCHANGED << inputVars, scanned, scanVars, groupVars, saveVars >>

\* find_duplicates returns groups; run builds the report and calls save_results.
GroupReturn ==
    /\ pc = "group"
    /\ i > Len(images)
    /\ pc' = "serialize"
    /\ UNCHANGED << inputVars, result, scanned, scanVars, groupVars, saveVars >>

\* save_results, line 80: serialization fails.
SerializeErr ==
    /\ pc = "serialize"
    /\ result' = "Serialization"
    /\ pc' = "done"
    /\ UNCHANGED << inputVars, scanned, scanVars, groupVars, saveVars >>

\* save_results, line 80: the report is serialized.
SerializeOk ==
    /\ pc = "serialize"
    /\ contents' = << [directory |-> "dir", duplicates |-> groups,
                       threshold |-> threshold] >>
    /\ pc' = "create"
    /\ UNCHANGED << inputVars, result, scanned, scanVars, groupVars, file >>

\* fs::write, creating (and truncating) the file: fails.
CreateErr ==
    /\ pc = "create"
    /\ result' = "StorageIO"
    /\ pc' = "done"
    /\ UNCHANGED << inputVars, scanned, scanVars, groupVars, saveVars >>

\* fs::write, creating (and truncating) the file: succeeds.
CreateOk ==
    /\ pc = "create"
    /\ file' = "empty"
    /\ pc' = "write"
    /\ UNCHANGED << inputVars, result, scanned, scanVars, groupVars, contents >>

\* fs::write, write_all: fails after none or some of the bytes were written.
WriteErr ==
    /\ pc = "write"
    /\ \E f \in {"empty", "partial"} : file' = f
    /\ result' = "StorageIO"
    /\ pc' = "done"
    /\ UNCHANGED << inputVars, scanned, scanVars, groupVars, contents >>

\* fs::write, write_all: all bytes written; save_results and run return Ok.
WriteOk ==
    /\ pc = "write"
    /\ file' = "complete"
    /\ result' = "Ok"
    /\ pc' = "done"
    /\ UNCHANGED << inputVars, scanned, scanVars, groupVars, contents >>

Next ==
    \/ InvalidDirectory
    \/ ReadDirErr
    \/ ReadDirOk
    \/ \E k \in 1..MaxEntries : Task(k)
    \/ ScanReturn
    \/ GroupStep
    \/ GroupReturn
    \/ SerializeErr
    \/ SerializeOk
    \/ CreateErr
    \/ CreateOk
    \/ WriteErr
    \/ WriteOk

Spec == Init /\ [][Next]_vars

\* run is a sequential program and the worker pool runs every task it was
\* given: a step that can be taken is eventually taken.
FairSpec == Spec /\ WF_vars(Next)

\* ------------------------------------------------------ claims: vocabulary
\* find_duplicates has returned and run holds its result (line 100).
GroupsReturned == pc = "serialize"

\* The set of the elements of a sequence.
Range(seq) == { seq[k] : k \in DOMAIN seq }

\* The positions of the members of all groups: <<group index, member index>>.
Slots(gs) == UNION { { <<g, m>> : m \in DOMAIN gs[g].items } : g \in DOMAIN gs }

\* The records that are a member of some group.
Grouped(gs) == UNION { Range(gs[g].items) : g \in DOMAIN gs }

\* The paths of the list are pairwise distinct.
DistinctPaths(imgs) ==
    \A a, b \in DOMAIN imgs : imgs[a].path = imgs[b].path => a = b

\* The index in imgs of a record (paths are distinct); 0 if it is not there.
Pos(imgs, rec) ==
    IF \E k \in DOMAIN imgs : imgs[k] = rec
    THEN CHOOSE k \in DOMAIN imgs : imgs[k] = rec
    ELSE 0

\* ----------------------------------------------------------------- claims
\* C1: every group find_duplicates builds, and so every group it returns, has
\* at least 2 members; no group of size 0 or 1 is emitted.
C1_GroupSizeAtLeastTwo ==
    \A g \in DOMAIN groups : Len(groups[g].items) >= 2

\* C1 witness: find_duplicates returned a group although one anchor found no
\* match and was discarded.
C1_Witness ==
    /\ GroupsReturned
    /\ Len(groups) >= 1
    /\ \E k \in DOMAIN images : images[k] \notin Grouped(groups)

\* C2: for a list with pairwise distinct paths, each record appears in at
\* most one returned group and at most once inside it: two different member
\* positions never hold the same record.
C2_Partition ==
    DistinctPaths(images) =>
        \A x, y \in Slots(groups) :
            groups[x[1]].items[x[2]] = groups[y[1]].items[y[2]] => x = y

\* C2 witness: two groups were returned for a list of four records.
C2_Witness ==
    /\ GroupsReturned
    /\ DistinctPaths(images)
    /\ Len(images) = 4
    /\ Len(groups) = 2

\* C3: in every group, every member other than the first (the anchor) has
\* Hamming distance to the anchor strictly below the threshold.
C3_AnchorDistance ==
    \A g \in DOMAIN groups :
        \A m \in 2..Len(groups[g].items) :
            Dist(groups[g].items[1].hash, groups[g].items[m].hash) < threshold

\* C3 witness: a returned group holds two non-anchor members that are not
\* within the threshold of each other.
C3_Witness ==
    /\ GroupsReturned
    /\ \E g \in DOMAIN groups :
          /\ Len(groups[g].items) >= 3
          /\ Dist(groups[g].items[2].hash, groups[g].items[3].hash) >= threshold

\* C9: groups are returned in increasing order of their anchors' input
\* positions; in each group the members are in input order, the anchor first
\* and every other member at a position strictly after it.
C9_StableOrder ==
    /\ \A g \in DOMAIN groups :
          \A m \in 1..Len(groups[g].items) - 1 :
              /\ Pos(images, groups[g].items[m]) >= 1
              /\ Pos(images, groups[g].items[m]) < Pos(images, groups[g].items[m + 1])
    /\ \A g \in 1..Len(groups) - 1 :
          Pos(images, groups[g].items[1]) < Pos(images, groups[g + 1].items[1])

\* C9 witness: two groups were returned and a member of the first one comes,
\* in the input, after the anchor of the second.
C9_Witness ==
    /\ GroupsReturned
    /\ Len(groups) = 2
    /\ \E m \in DOMAIN groups[1].items :
          Pos(images, groups[1].items[m]) > Pos(images, groups[2].items[1])

\* C10: a candidate compared with an anchor is added to that anchor's group
\* exactly when its distance is strictly below the threshold; a candidate at
\* distance equal to the threshold is not added.
C10_StrictThreshold ==
    \A pair \in compared :
        LET a == images[pair[1]]
            c == images[pair[2]]
            added == \E g \in DOMAIN groups :
                        /\ groups[g].items[1] = a
                        /\ c \in Range(groups[g].items)
        IN  /\ Dist(a.hash, c.hash) = threshold => ~added
            /\ added <=> Dist(a.hash, c.hash) < threshold

\* C10 witness: an anchor that formed a group was compared with a candidate
\* at distance exactly the threshold.
C10_Witness ==
    /\ GroupsReturned
    /\ \E pair \in compared :
          /\ Dist(images[pair[1]].hash, images[pair[2]].hash) = threshold
          /\ \E g \in DOMAIN groups : groups[g].items[1] = images[pair[1]]

\* The pairs of positions p < q whose records are within the threshold.
ClosePairs(imgs, t) ==
    { pq \in (DOMAIN imgs) \X (DOMAIN imgs) :
        /\ pq[1] < pq[2]
        /\ Dist(imgs[pq[1]].hash, imgs[pq[2]].hash) < t }

\* The number of records that are a member of some group.
Assigned(gs) == Cardinality(Grouped(gs))

\* C4 (as claimed): for thresholds t1 <= t2 and the same list, the number of
\* grouped records for t2 is never smaller than for t1.
C4_Monotone ==
    GroupsReturned =>
        \A t2 \in Thresholds :
            threshold <= t2 =>
                Assigned(groups) <= Assigned(FindDuplicates(images, t2))

\* C4 (amended): for thresholds t1 <= t2 and the same list, a non-empty
\* result for t1 gives a non-empty result for t2, and when the first record
\* anchors a group for t1 it anchors the first group for t2 with at least
\* the same members.
C4_MonotoneFirstAnchor ==
    GroupsReturned =>
        \A t2 \in Thresholds :
            threshold <= t2 =>
                LET later == FindDuplicates(images, t2)
                IN  /\ groups # << >> => later # << >>
                    /\ (groups # << >> /\ groups[1].items[1] = images[1]) =>
                          /\ later[1].items[1] = images[1]
                          /\ Range(groups[1].items) \subseteq Range(later[1].items)

\* C4 witness: a larger threshold leaves fewer records grouped than the
\* threshold of the run, while the first record anchors a group in both.
C4_Witness ==
    /\ GroupsReturned
    /\ groups # << >>
    /\ groups[1].items[1] = images[1]
    /\ \E t2 \in Thresholds :
          /\ threshold < t2
          /\ Assigned(FindDuplicates(images, t2)) < Assigned(groups)

\* C5: when exactly one pair of records, at positions p < q, is within the
\* threshold, find_duplicates returns exactly one group, made of record p
\* then record q; every other record is in no group.
C5_SinglePair ==
    (GroupsReturned /\ Cardinality(ClosePairs(images, threshold)) = 1) =>
        LET pq == CHOOSE x \in ClosePairs(images, threshold) : TRUE
        IN  groups = << [items |-> << images[pq[1]], images[pq[2]] >>] >>

\* C5 witness: four records, the only close pair being neither the first
\* record nor adjacent.
C5_Witness ==
    /\ GroupsReturned
    /\ Len(images) = 4
    /\ ClosePairs(images, threshold) = { <<2, 4>> }
    /\ Len(groups) = 1

\* The number of records of imgs that carry the path.
RecordsOf(imgs, path) == Cardinality({ m \in DOMAIN imgs : imgs[m].path = path })

\* C6: under every interleaving of the tasks the scan returns Ok with exactly
\* one record, carrying the entry's path and fingerprint, for each entry that
\* decodes and none for an entry that does not; while tasks run, each has
\* written its own output only; the scan fails only before any task ran.
C6_ScanIsDecodableEntries ==
    /\ scanned = "Ok" =>
          /\ \A k \in DOMAIN entries :
                RecordsOf(images, k) = IF entries[k] # NotImage THEN 1 ELSE 0
          /\ \A m \in DOMAIN images :
                /\ images[m].path \in DOMAIN entries
                /\ images[m].hash = entries[images[m].path]
    /\ pc = "scan" =>
          \A k \in DOMAIN entries :
              out[k] = IF k \in finished /\ entries[k] # NotImage
                       THEN << [path |-> k, hash |-> entries[k]] >>
                       ELSE << >>
    /\ scanned \in {"InvalidDirectory", "StorageIO"} => finished = {}
    /\ (pc # "start" /\ finished # {}) => (pc = "scan" \/ scanned = "Ok")

\* C6 witness: a directory whose first entry does not decode and whose second
\* is an image was scanned into a list of length 1.
C6_Witness ==
    /\ scanned = "Ok"
    /\ Len(entries) = 2
    /\ entries[1] = NotImage
    /\ entries[2] # NotImage
    /\ Len(images) = 1

\* C7: when the path is not a directory, get_image_hashes and run return
\* InvalidDirectory, and nothing else happens: no entry is listed, decoded or
\* hashed, no progress is reported, nothing is grouped, no report is written.
C7_InvalidDirectoryFirst ==
    ~isDir =>
        /\ pc \in {"start", "done"}
        /\ pc = "done" => (scanned = "InvalidDirectory" /\ result = "InvalidDirectory")
        /\ barLen = 0 /\ barPos = 0 /\ finished = {} /\ out = << >>
        /\ images = << >> /\ groups = << >> /\ compared = {}
        /\ contents = << >> /\ file = "absent"

\* C7 witness: run returned InvalidDirectory for a path that is no directory.
C7_Witness ==
    /\ ~isDir
    /\ pc = "done"
    /\ result = "InvalidDirectory"

\* C8 (as claimed): run ends either with Ok and one complete report written,
\* or with an error and no report content, partial or complete, written.
C8_AllOrNothing ==
    pc = "done" =>
        \/ result = "Ok" /\ file = "complete"
        \/ /\ result \in {"InvalidDirectory", "StorageIO", "Serialization"}
           /\ file \in {"absent", "empty"}

\* C11: find_duplicates applied to an empty record list returns an empty
\* group list, for every threshold, without comparing or processing anything.
C11_EmptyInput ==
    (GroupsReturned /\ images = << >>) =>
        /\ groups = << >>
        /\ processed = {}
        /\ compared = {}

\* C11 witness: find_duplicates returned for the empty list obtained from a
\* directory that holds entries, none of which decodes.
C11_Witness ==
    /\ GroupsReturned
    /\ images = << >>
    /\ Len(entries) >= 2
    /\ threshold >= 1

\* C12: find_duplicates always completes: once entered it returns, without
\* an error; every iteration moves to the next record, so at the return each
\* record has been visited exactly once (as an anchor, or skipped).
C12_GroupingCompletes ==
    /\ [](GroupsReturned => (i = Len(images) + 1 /\ result = "none"))
    /\ [][pc = "group" =>
             \/ pc' = "group" /\ i' = i + 1 /\ i <= Len(images)
             \/ pc' = "serialize" /\ i' = i /\ i = Len(images) + 1]_vars
    /\ (pc = "group") ~> GroupsReturned

\* C12 witness: find_duplicates returned after visiting three or more
\* records, one of them skipped as a member of an earlier anchor's group.
C12_Witness ==
    /\ GroupsReturned
    /\ Len(images) >= 3
    /\ i = Len(images) + 1
    /\ \E g \in DOMAIN groups : Pos(images, groups[g].items[2]) < Len(images)

\* C13: when the scan succeeded and find_duplicates returned no group, run
\* goes on to save_results as for any other result: it ends with Ok only
\* after a complete report with an empty group list was written, and the
\* only other ways for it to end are the errors of save_results.
C13_EmptyResultReported ==
    (scanned = "Ok" /\ pc # "group" /\ groups = << >>) =>
        /\ pc \in {"serialize", "create", "write", "done"}
        /\ pc = "done" => result \in {"Ok", "Serialization", "StorageIO"}
        /\ pc \in {"create", "write"} \/ result \in {"Ok", "StorageIO"} =>
              contents = << [directory |-> "dir", duplicates |-> << >>,
                             threshold |-> threshold] >>
        /\ result = "Ok" <=> file = "complete"

\* C13 witness: run returned Ok with a complete report without groups, for a
\* directory none of whose entries decodes.
C13_Witness ==
    /\ pc = "done"
    /\ result = "Ok"
    /\ file = "complete"
    /\ entries # << >>
    /\ images = << >>
    /\ contents[1].duplicates = << >>

\* C14: for the list A, B, C with dist(A,B) < threshold, dist(B,C) < threshold
\* and dist(A,C) >= threshold, find_duplicates returns exactly the group
\* [A, B]; C is in no group.
C14_AnchorNotTransitive ==
    ( /\ GroupsReturned
      /\ Len(images) = 3
      /\ Dist(images[1].hash, images[2].hash) < threshold
      /\ Dist(images[2].hash, images[3].hash) < threshold
      /\ Dist(images[1].hash, images[3].hash) >= threshold ) =>
        /\ groups = << [items |-> << images[1], images[2] >>] >>
        /\ images[3] \notin Grouped(groups)

\* C14 witness: such a chain was grouped: three images, the first two in the
\* only group, the third close to the second but left out.
C14_Witness ==
    /\ GroupsReturned
    /\ Len(images) = 3
    /\ Len(groups) = 1
    /\ Dist(images[2].hash, images[3].hash) < threshold
    /\ Dist(images[1].hash, images[3].hash) >= threshold
    /\ images[3] \notin Grouped(groups)

\* The records that are a non-anchor member of some group: the records that
\* were assigned before the outer loop reached them.
Members(gs) ==
    { gs[x[1]].items[x[2]] : x \in { y \in Slots(gs) : y[2] >= 2 } }

\* C15: for every non-anchor member c of a group with anchor a, no record
\* before a that was unassigned when the outer loop visited it (an earlier
\* anchor, with or without a group) is within the threshold of c: a is the
\* earliest such record within the threshold of c.
C15_FirstMatchWins ==
    \A g \in DOMAIN groups :
        \A m \in 2..Len(groups[g].items) :
            LET a == groups[g].items[1]
                c == groups[g].items[m]
            IN  /\ Dist(a.hash, c.hash) < threshold
                /\ \A k \in 1..Pos(images, a) - 1 :
                      images[k] \notin Members(groups) =>
                          /\ Dist(images[k].hash, c.hash) >= threshold
                          /\ <<k, Pos(images, c)>> \in compared

\* C15 witness: the anchor of a returned group comes after an earlier
\* anchor, and after a member of that anchor's group which is within the
\* threshold of the later group's member but was never an anchor.
C15_Witness ==
    /\ GroupsReturned
    /\ \E g \in DOMAIN groups :
          LET pa == Pos(images, groups[g].items[1])
              c == groups[g].items[2]
          IN  /\ \E k \in 1..pa - 1 : images[k] \notin Members(groups)
              /\ \E k \in 1..pa - 1 :
                    /\ images[k] \in Members(groups)
                    /\ Dist(images[k].hash, c.hash) < threshold

\* C16 (as claimed): every entry a task has handled, decoded or skipped,
\* advances the progress by one, and when the scan completes the progress
\* equals the number of entries listed.
C16_ProgressCountsEntries ==
    /\ pc = "scan" => barPos = Cardinality(finished)
    /\ scanned = "Ok" => (barLen = Len(entries) /\ barPos = barLen)

\* The record at index k was visited by the outer loop while unassigned and
\* found no match: it anchors no group and its path is not in processed.
Discarded(k) ==
    /\ scanned = "Ok"
    /\ k \in DOMAIN images
    /\ k < i
    /\ images[k].path \notin processed

\* C17: a record that was visited as an anchor and found no match produces
\* no group, and from then on it stays discarded: no later step compares it
\* as a candidate or adds it to a group.
C17_DiscardedStaysDiscarded ==
    [][\A k \in DOMAIN images :
          Discarded(k) =>
              /\ images[k] \notin Grouped(groups)
              /\ Discarded(k)'
              /\ images[k] \notin Grouped(groups')
              /\ \A pair \in compared' :
                    pair[2] = k => (pair \in compared /\ pair[1] < k)]_vars

\* C17 witness: find_duplicates returned a group whose anchor comes after a
\* discarded record.
C17_Witness ==
    /\ GroupsReturned
    /\ \E k \in DOMAIN images :
          /\ Discarded(k)
          /\ \E g \in DOMAIN groups : Pos(images, groups[g].items[1]) > k

\* C18: after find_duplicates returned on a list with distinct paths, any
\* two records that are in no group are at distance >= threshold; so when
\* some pair of records is within the threshold, a group is returned.
C18_LeftoversPairwiseFar ==
    (GroupsReturned /\ DistinctPaths(images)) =>
        /\ \A p, q \in DOMAIN images :
              ( /\ p < q
                /\ images[p] \notin Grouped(groups)
                /\ images[q] \notin Grouped(groups) ) =>
                  Dist(images[p].hash, images[q].hash) >= threshold
        /\ ClosePairs(images, threshold) # {} => groups # << >>

\* C18 witness: a group was returned and two records with different
\* fingerprints were left in no group.
C18_Witness ==
    /\ GroupsReturned
    /\ groups # << >>
    /\ \E p, q \in DOMAIN images :
          /\ p < q
          /\ images[p] \notin Grouped(groups)
          /\ images[q] \notin Grouped(groups)
          /\ images[p].hash # images[q].hash

\* C19: with threshold 0 find_duplicates returns no group, whatever the
\* input, also when records have identical fingerprints.
C19_ThresholdZero ==
    (GroupsReturned /\ threshold = 0) => groups = << >>

\* C19 witness: find_duplicates returned with threshold 0 for a list holding
\* two records with the same fingerprint.
C19_Witness ==
    /\ GroupsReturned
    /\ threshold = 0
    /\ \E p, q \in DOMAIN images : p < q /\ images[p].hash = images[q].hash

\* The records of the entries that decode, in the order of the listing.
DecodableInOrder(es) ==
    SelectSeq([k \in 1..Len(es) |-> [path |-> k, hash |-> es[k]]],
              LAMBDA r : r.hash # NotImage)

\* C20: under every interleaving of the tasks, get_image_hashes returns the
\* records of the decodable entries in the order of the listing, so the
\* groups found afterwards are those of that one list.
C20_ScanOrderScheduleIndependent ==
    /\ scanned = "Ok" => images = DecodableInOrder(entries)
    /\ GroupsReturned => groups = FindDuplicates(DecodableInOrder(entries), threshold)

\* C20 witness: groups were returned for a scan of three or more entries,
\* run as tasks in any order, two of which at least decode.
C20_Witness ==
    /\ GroupsReturned
    /\ Len(entries) >= 3
    /\ Len(images) >= 2
    /\ Len(images) < Len(entries)
    /\ groups # << >>

====
